---- MODULE Spec2Model ----
(***************************************************************************)
(* Model of pxr/usd/lib/usd/integerCoding.cpp: the delta + 2-bit-code      *)
(* integer coder (_EncodeIntegers / _DecodeIntegers), its buffer sizing,   *)
(* and the Usd_IntegerCompression entry points built on it.                *)
(*                                                                         *)
(* Representation of the C++ integer types:                                *)
(*   int32_t   a TLA+ integer in INT32_MIN .. INT32_MAX                    *)
(*   uint32_t  a pair <<hi, lo>> of 16-bit halves (value hi*65536 + lo),   *)
(*             so that 32-bit modular arithmetic is computed by carries    *)
(*   int8_t, int16_t   TLA+ integers in their ranges                       *)
(*   char buffers      sequences of bytes 0..255; offset o is index o+1    *)
(* Signed overflow in the source (lines 168, 209-218, 241) is modelled as  *)
(* two's-complement wrap, the result of the machine add/sub.               *)
(***************************************************************************)
EXTENDS Integers, Sequences, FiniteSets, TLC

\* ---------------------------------------------------------------- bounds
\* longest input built from Values
MaxN == 4
\* largest numInts of a decode of a stream that no encode produced
MaxDecN == 5

\* ------------------------------------------------------ program constants
INT32_MAX == 2147483647
INT32_MIN == (-2147483647) - 1
INT8_MIN == -128
INT8_MAX == 127
INT16_MIN == -32768
INT16_MAX == 32767
SizeofInt == 4

Half == 256 * 256
Byte == 0 .. 255
IntTypes == {"int32", "uint32"}

\* enum Code { Common, One, Two, Four }
Common == 0
One == 1
Two == 2
Four == 3

\* --------------------------------------------- 32-bit integer arithmetic

\* conversion int32_t -> uint32_t (value modulo 2^32)
I32ToU32(a) ==
    IF a >= 0 THEN << a \div Half, a % Half >>
    ELSE LET b == (a + INT32_MAX) + 1
         IN  << (b \div Half) + 32768, b % Half >>

\* conversion uint32_t -> int32_t (static_cast, same bit pattern)
U32ToI32(x) ==
    IF x[1] < 32768 THEN x[1] * Half + x[2]
    ELSE (x[1] - Half) * Half + x[2]

\* uint32_t comparison and modular add / subtract
U32Leq(x, y) == x[1] < y[1] \/ (x[1] = y[1] /\ x[2] <= y[2])

U32Add(x, y) ==
    LET lo == x[2] + y[2]
    IN  << (x[1] + y[1] + (lo \div Half)) % Half, lo % Half >>

U32Sub(x, y) ==
    LET lo == x[2] - y[2]
        borrow == IF lo < 0 THEN 1 ELSE 0
    IN  << (x[1] - y[1] - borrow) % Half, lo % Half >>

\* int32_t add / subtract as the build computes them (wrapping)
S32Add(a, b) == U32ToI32(U32Add(I32ToU32(a), I32ToU32(b)))
\* variant: the operands of the subtraction exchanged
S32SubReversed(a, b) == U32ToI32(U32Sub(I32ToU32(b), I32ToU32(a)))
S32Sub(a, b) == U32ToI32(U32Sub(I32ToU32(a), I32ToU32(b)))

\* variant: the second branch without the final + INT32_MIN
_SignedNoRebase(x) ==
    IF U32Leq(x, I32ToU32(INT32_MAX)) THEN x[1] * Half + x[2]
    ELSE U32ToI32(U32Sub(x, I32ToU32(INT32_MIN)))

\* _Signed(uint32_t x)
_Signed(x) ==
    IF U32Leq(x, I32ToU32(INT32_MAX)) THEN x[1] * Half + x[2]
    ELSE IF U32Leq(I32ToU32(INT32_MIN), x)
         THEN U32ToI32(U32Sub(x, I32ToU32(INT32_MIN))) + INT32_MIN
         ELSE 0

\* the argument *cur of _Signed: an Int converted to uint32_t
DerefAsU32(T, v) == IF T = "int32" THEN I32ToU32(v) ELSE v

\* an SInt passed for a parameter of type Int (commonValue of the helpers)
SIntAsInt(T, v) == IF T = "uint32" THEN I32ToU32(v) ELSE v

\* static_cast<Int>(prevVal)
CastToInt(T, v) == IF T = "uint32" THEN I32ToU32(v) ELSE v

\* ------------------------------------------------------- bits and bytes
RECURSIVE BitOr(_, _)
BitOr(a, b) ==
    IF a = 0 THEN b
    ELSE IF b = 0 THEN a
    ELSE (IF a % 2 = 1 \/ b % 2 = 1 THEN 1 ELSE 0)
         + 2 * BitOr(a \div 2, b \div 2)

RECURSIVE BitAnd(_, _)
BitAnd(a, b) ==
    IF a = 0 \/ b = 0 THEN 0
    ELSE (IF a % 2 = 1 /\ b % 2 = 1 THEN 1 ELSE 0)
         + 2 * BitAnd(a \div 2, b \div 2)

RECURSIVE Shl(_, _)
Shl(a, n) == IF n = 0 THEN a ELSE Shl(2 * a, n - 1)

RECURSIVE Shr(_, _)
Shr(a, n) == IF n = 0 THEN a ELSE Shr(a \div 2, n - 1)

Reverse(s) == [ i \in 1 .. Len(s) |-> s[Len(s) + 1 - i] ]

\* object representation of an int8_t / int16_t / int32_t, low byte first
LowFirst(v, size) ==
    IF size = 1 THEN << v % 256 >>
    ELSE IF size = 2
         THEN LET w == v % Half IN << w % 256, w \div 256 >>
         ELSE LET u == I32ToU32(v)
              IN  << u[2] % 256, u[2] \div 256, u[1] % 256, u[1] \div 256 >>

\* value of an object representation given low byte first
FromLowFirst(bs) ==
    IF Len(bs) = 1 THEN (IF bs[1] >= 128 THEN bs[1] - 256 ELSE bs[1])
    ELSE IF Len(bs) = 2
         THEN LET w == bs[1] + 256 * bs[2]
              IN  IF w >= 32768 THEN w - Half ELSE w
         ELSE U32ToI32(<< bs[3] + 256 * bs[4], bs[1] + 256 * bs[2] >>)


\* ------------------------------------------------------------ state
VARIABLES
    pc,            \* position of the caller / of the running operation
    littleEndian,  \* byte order of the host (memcpy in _WriteBits/_ReadBits)
    intT,          \* template argument Int of the encode call
    ints,          \* the input array [begin, begin + numInts)
    numInts,       \* _EncodeIntegers' numInts (counted down by the loop)
    cur,           \* input iterator, as a 1-based index into ints
    commonValue,   \* SInt commonValue of _EncodeIntegers
    prevVal,       \* SInt prevVal of the encoder
    encodeBuffer,  \* encodeBuffer of _CompressIntegers; -1 = never written
    codesOut,      \* write cursor of the codes region (offset)
    vintsOut,      \* write cursor of the payload region (offset)
    wlog,          \* every byte _WriteBits stored: [cursor, off]
    encodedSize,   \* value returned by _EncodeIntegers
    compressed,    \* the compressed stream handed to DecompressFromBuffer
    origin,        \* "roundtrip": compressed came from CompressToBuffer
    decT,          \* template argument Int of the decode call
    decNumInts,    \* numInts of _DecompressIntegers
    tmpSpace,      \* TRUE iff the call allocated its own scratch
    workingSpace,  \* the working space bytes
    decompSz,      \* value returned by the byte-stream decompressor
    decCommon,     \* commonValue read by _DecodeIntegers
    decPrevVal,    \* SInt prevVal of the decoder
    codesIn,       \* read cursor of the codes region (offset)
    vintsIn,       \* read cursor of the payload region (offset)
    intsLeft,      \* intsLeft of _DecodeIntegers
    result,        \* the integers written through the output iterator
    rlog,          \* every working-space offset the decoder read
    ret            \* value returned by DecompressFromBuffer

encVars == << intT, ints, numInts, cur, commonValue, prevVal, encodeBuffer,
              codesOut, vintsOut, wlog, encodedSize >>
decVars == << decT, decNumInts, tmpSpace, workingSpace, decompSz, decCommon,
              decPrevVal, codesIn, vintsIn, intsLeft, result, rlog, ret >>
vars == << pc, littleEndian, encVars, compressed, origin, decVars >>

\* ------------------------------------------------------ buffer sizing

\* _GetEncodedBufferSize<Int>(numInts)
_GetEncodedBufferSize(n) ==
    IF n # 0 THEN SizeofInt + ((n * 2 + 7) \div 8) + (n * SizeofInt) ELSE 0

\* Usd_IntegerCompression::GetDecompressionWorkingSpaceSize(numInts)
GetDecompressionWorkingSpaceSize(n) == _GetEncodedBufferSize(n)

\* ------------------------------------------------- _WriteBits/_ReadBits

\* the bytes memcpy copies for a value of the given size
HostBytes(v, size) ==
    IF littleEndian THEN LowFirst(v, size) ELSE Reverse(LowFirst(v, size))

\* memcpy(p, &val, sizeof(val)) into buf at offset p
Store(buf, p, bs) ==
    [ i \in 1 .. Len(buf) |->
        IF i - 1 >= p /\ i - 1 < p + Len(bs) THEN bs[i - p] ELSE buf[i] ]

Offsets(who, p, n) == { [cursor |-> who, off |-> o] : o \in p .. (p + n - 1) }

\* the byte at offset o of buf (0 stands for a byte outside the buffer)
ByteAt(buf, o) == IF o >= 0 /\ o < Len(buf) THEN buf[o + 1] ELSE 0

\* variant: int8_t and int16_t read as uint8_t and uint16_t
_ReadBitsUnsigned(buf, p, size) ==
    LET bs == [ i \in 1 .. size |-> ByteAt(buf, p + i - 1) ]
        lf == IF littleEndian THEN bs ELSE Reverse(bs)
    IN  IF size = 1 THEN lf[1]
        ELSE IF size = 2 THEN lf[1] + 256 * lf[2]
        ELSE FromLowFirst(lf)

\* _ReadBits<T>(p): the value of the size bytes at offset p
_ReadBits(buf, p, size) ==
    LET bs == [ i \in 1 .. size |-> ByteAt(buf, p + i - 1) ]
    IN  FromLowFirst(IF littleEndian THEN bs ELSE Reverse(bs))

\* -------------------------------------------------------------- encoder

\* variant: for uint32_t, x compared with commonValue as a wider signed
\* value, so that a negative x never equals it
getCodeWidened(T, cv, x) ==
    IF (IF T = "uint32" THEN x >= 0 /\ I32ToU32(x) = cv ELSE x = cv)
    THEN Common
    ELSE IF x >= INT8_MIN /\ x <= INT8_MAX THEN One
    ELSE IF x >= INT16_MIN /\ x <= INT16_MAX THEN Two
    ELSE Four

\* variant: the width tests made before the test for commonValue
getCodeWidthFirst(T, cv, x) ==
    IF x >= INT8_MIN /\ x <= INT8_MAX THEN One
    ELSE IF x >= INT16_MIN /\ x <= INT16_MAX THEN Two
    ELSE IF (IF T = "uint32" THEN I32ToU32(x) = cv ELSE x = cv) THEN Common
    ELSE Four

\* the lambda getCode of _EncodeNHelper; commonValue has type Int
getCode(T, cv, x) ==
    IF (IF T = "uint32" THEN I32ToU32(x) = cv ELSE x = cv) THEN Common
    ELSE IF x >= INT8_MIN /\ x <= INT8_MAX THEN One
    ELSE IF x >= INT16_MIN /\ x <= INT16_MAX THEN Two
    ELSE Four

\* sizeof of the type written / read for a code
CodeSize(code) ==
    IF code = One THEN 1 ELSE IF code = Two THEN 2
    ELSE IF code = Four THEN 4 ELSE 0

\* the for loop of _EncodeNHelper<N> followed by the code byte write;
\* e = [cur, prevVal, codesOut, vintsOut, buf, wlog]
RECURSIVE EncodeNLoop(_, _, _, _, _, _, _)
EncodeNLoop(i, N, T, input, cv, codeByte, e) ==
    IF i = N
    THEN [ e EXCEPT !.buf = Store(e.buf, e.codesOut, << codeByte >>),
                    !.codesOut = e.codesOut + 1,
                    !.wlog = e.wlog \cup Offsets("codes", e.codesOut, 1) ]
    ELSE LET s == _Signed(DerefAsU32(T, input[e.cur]))
             val == S32Sub(s, e.prevVal)
             code == getCode(T, cv, val)
             cb == BitOr(codeByte, Shl(code, 2 * i)) % 256
             bs == IF code = Common THEN << >>
                   ELSE HostBytes(val, CodeSize(code))
         IN  EncodeNLoop(i + 1, N, T, input, cv, cb,
                 [ e EXCEPT !.cur = e.cur + 1,
                            !.prevVal = s,
                            !.buf = Store(e.buf, e.vintsOut, bs),
                            !.vintsOut = e.vintsOut + Len(bs),
                            !.wlog = e.wlog
                                \cup Offsets("vints", e.vintsOut, Len(bs)) ])

_EncodeNHelper(N, T, input, cv, e) == EncodeNLoop(0, N, T, input, cv, 0, e)

\* first pass of _EncodeIntegers: the deltas counted into `counts`
RECURSIVE DeltaSeq(_, _, _, _)
DeltaSeq(T, input, i, prev) ==
    IF i > Len(input) THEN << >>
    ELSE LET s == _Signed(DerefAsU32(T, input[i]))
         IN  << S32Sub(s, prev) >> \o DeltaSeq(T, input, i + 1, s)

Deltas(T, input) == DeltaSeq(T, input, 1, 0)

\* variant: the comparison of the selection loop inverted, which leaves
\* commonValue at its initial 0
CommonCandidatesNone(T, input) == { 0 }

\* The values the selection loop can leave in commonValue: it keeps the
\* first key, in the unordered_map's iteration order, whose count is the
\* maximum; that order is unspecified, so any key of maximal count.
CommonCandidates(T, input) ==
    LET ds == Deltas(T, input)
        keys == { ds[i] : i \in 1 .. Len(ds) }
        cnt(d) == Cardinality({ i \in 1 .. Len(ds) : ds[i] = d })
    IN  { d \in keys : \A d2 \in keys : cnt(d2) <= cnt(d) }

\* variant: the codes region sized numInts * 2 / 8, without rounding up
EncodePlanFloor(buf, n, cv) ==
    [ cur |-> 1,
      prevVal |-> 0,
      codesOut |-> SizeofInt,
      vintsOut |-> SizeofInt + ((n * 2) \div 8),
      buf |-> Store(buf, 0, HostBytes(cv, SizeofInt)),
      wlog |-> Offsets("common", 0, SizeofInt) ]

\* "Write most common value" and the cursor set-up of _EncodeIntegers
EncodePlan(buf, n, cv) ==
    [ cur |-> 1,
      prevVal |-> 0,
      codesOut |-> SizeofInt,
      vintsOut |-> SizeofInt + ((n * 2 + 7) \div 8),
      buf |-> Store(buf, 0, HostBytes(cv, SizeofInt)),
      wlog |-> Offsets("common", 0, SizeofInt) ]

\* variant: the other cursor returned
EncodeReturnCodes(e) == e.codesOut

\* return vintsOut - output
EncodeReturn(e) == e.vintsOut

\* the while loop and the switch of _EncodeIntegers
RECURSIVE EncodeBlocks(_, _, _, _, _)
EncodeBlocks(n, T, input, cv, e) ==
    IF n >= 4
    THEN EncodeBlocks(n - 4, T, input, cv,
                      _EncodeNHelper(4, T, input, SIntAsInt(T, cv), e))
    ELSE IF n \in 1 .. 3
         THEN _EncodeNHelper(n, T, input, SIntAsInt(T, cv), e)
         ELSE e

\* _EncodeIntegers(begin, numInts, output) once commonValue is selected:
\* the final buffer and the returned size
_EncodeIntegers(T, input, buf, cv) ==
    IF Len(input) = 0 THEN [ buf |-> buf, size |-> 0 ]
    ELSE LET e == EncodeBlocks(Len(input), T, input, cv,
                               EncodePlan(buf, Len(input), cv))
         IN  [ buf |-> e.buf, size |-> EncodeReturn(e) ]

\* new char[size]: contents indeterminate until written
NewBuffer(size) == [ i \in 1 .. size |-> -1 ]


\* -------------------------------------------------------------- decoder

\* prevVal += commonValue, commonValue of type Int: for uint32_t the sum is
\* computed in uint32_t and converted back to SInt
AddCommon(T, prev, cv) ==
    IF T = "uint32" THEN U32ToI32(U32Add(I32ToU32(prev), cv))
    ELSE S32Add(prev, cv)

\* the for loop of _DecodeNHelper<N>;
\* d = [codesIn, vintsIn, prevVal, out, rlog]
RECURSIVE DecodeNLoop(_, _, _, _, _, _, _)
DecodeNLoop(i, N, T, data, cv, codeByte, d) ==
    IF i = N THEN d
    ELSE LET code == Shr(BitAnd(codeByte, Shl(3, 2 * i)), 2 * i)
             size == CodeSize(code)
             nv == IF code = Common THEN AddCommon(T, d.prevVal, cv)
                   ELSE S32Add(d.prevVal, _ReadBits(data, d.vintsIn, size))
         IN  DecodeNLoop(i + 1, N, T, data, cv, codeByte,
                 [ d EXCEPT !.prevVal = nv,
                            !.vintsIn = d.vintsIn + size,
                            !.rlog = d.rlog
                                \cup (d.vintsIn .. (d.vintsIn + size - 1)),
                            !.out = Append(d.out, CastToInt(T, nv)) ])

\* variant: every code byte decoded as a full block of four
_DecodeNHelperFull(N, T, data, cv, d) ==
    DecodeNLoop(0, 4, T, data, cv, ByteAt(data, d.codesIn),
                [ d EXCEPT !.codesIn = d.codesIn + 1,
                           !.rlog = d.rlog \cup { d.codesIn } ])

_DecodeNHelper(N, T, data, cv, d) ==
    DecodeNLoop(0, N, T, data, cv, ByteAt(data, d.codesIn),
                [ d EXCEPT !.codesIn = d.codesIn + 1,
                           !.rlog = d.rlog \cup { d.codesIn } ])

\* the head of _DecodeIntegers: commonValue and the two read cursors
DecodePlan(data, n) ==
    [ commonValue |-> _ReadBits(data, 0, SizeofInt),
      codesIn |-> SizeofInt,
      vintsIn |-> SizeofInt + ((n * 2 + 7) \div 8),
      prevVal |-> 0,
      out |-> << >>,
      rlog |-> 0 .. (SizeofInt - 1) ]

\* the while loop and the switch of _DecodeIntegers
RECURSIVE DecodeBlocks(_, _, _, _, _)
DecodeBlocks(n, T, data, cv, d) ==
    IF n >= 4
    THEN DecodeBlocks(n - 4, T, data, cv, _DecodeNHelper(4, T, data, cv, d))
    ELSE IF n \in 1 .. 3 THEN _DecodeNHelper(n, T, data, cv, d)
         ELSE d

\* _DecodeIntegers(data, numInts, result): what it leaves in result
_DecodeIntegers(T, data, n) ==
    LET p == DecodePlan(data, n)
    IN  DecodeBlocks(n, T, data, SIntAsInt(T, p.commonValue),
                     [ codesIn |-> p.codesIn, vintsIn |-> p.vintsIn,
                       prevVal |-> p.prevVal, out |-> p.out,
                       rlog |-> p.rlog ])

\* ------------------------------------------- byte-stream compressor
\* TfFastCompression is outside this file.  A compressed stream is the
\* record of whether it is well formed and of the bytes it expands to.

TfCompressToBuffer(bytes) == [ valid |-> TRUE, payload |-> bytes ]

\* returns the decompressed size (0 on failure, in particular when the
\* payload does not fit maxOutputSize) and the bytes left in output
TfDecompressFromBuffer(stream, output, maxOutputSize) ==
    IF stream.valid /\ Len(stream.payload) <= maxOutputSize
    THEN [ size |-> Len(stream.payload),
           output |-> Store(output, 0, stream.payload) ]
    ELSE [ size |-> 0, output |-> output ]

\* ---------------------------------------------------------- inputs

\* bit patterns the enumerated inputs are built from
Values == { << 0, 0 >>, << 0, 1 >>, << 0, 300 >>, << 32768, 0 >> }

U32Of(seq) == [ i \in 1 .. Len(seq) |-> I32ToU32(seq[i]) ]

Scenario1 == U32Of(<< 123, 124, 125, 100125, 100125, 100126, 10026 >>)
Scenario1Fixed == U32Of(<< 123, 124, 125, 100125, 100125, 100126, 100126 >>)
Scenario2 == U32Of(<< 0, 5, 10, 15, 20 >>)
Scenario3 == << << 32767, 65535 >> >>
Scenario4 == << << 0, 0 >>, << 16384, 0 >>, << 32768, 0 >>, << 49152, 0 >> >>
\* ties between deltas of different widths, and a six element input
TieInput == U32Of(<< 1, 2, 100002, 200002, 200003, 300003 >>)

\* seven elements, three of whose differences leave the int32_t range
WrapInput == << << 32767, 65535 >>, << 32768, 0 >>, << 65535, 65535 >>,
               << 0, 0 >>, << 0, 1 >>, << 32768, 1 >>, << 0, 300 >> >>

Inputs ==
    (UNION { [ 1 .. k -> Values ] : k \in 0 .. MaxN })
    \cup { Scenario1, Scenario1Fixed, Scenario2, Scenario3, Scenario4,
           TieInput, WrapInput }

\* the array of Int with the given bit patterns
AsInts(T, pats) ==
    [ i \in 1 .. Len(pats) |->
        IF T = "int32" THEN U32ToI32(pats[i]) ELSE pats[i] ]

\* contents a buffer can hold before it is written: new char[] is
\* indeterminate, a caller's workingSpace holds whatever it held
Fill(size, b) == [ i \in 1 .. size |-> b ]
Garbage(size) == { Fill(size, 165) }
ForeignGarbage(size) == { Fill(size, 0), Fill(size, 255) }

\* working-space images a foreign stream can expand to
ForeignHeaders == { << 0, 0, 0, 0 >>, << 255, 255, 255, 127 >>,
                    << 127, 255, 255, 255 >> }
ForeignCodeBytes == { 0, 27, 228, 255 }
ForeignPayloads == { << 255 >>, << 127, 128, 1 >> }

ForeignImages(n) ==
    LET nc == (n * 2 + 7) \div 8
    IN  { h \o c \o [ j \in 1 .. (n * SizeofInt) |-> f[((j - 1) % Len(f)) + 1] ] :
            h \in ForeignHeaders,
            c \in [ 1 .. nc -> ForeignCodeBytes ],
            f \in ForeignPayloads }

ForeignStreams(n) ==
    LET size == GetDecompressionWorkingSpaceSize(n)
    IN  { [ valid |-> FALSE, payload |-> << >> ],
          [ valid |-> TRUE, payload |-> Fill(size + 1, 0) ] }
        \cup (IF n = 0 THEN { [ valid |-> TRUE, payload |-> << >> ] }
              ELSE { [ valid |-> TRUE, payload |-> SubSeq(a, 1, l) ] :
                       a \in ForeignImages(n), l \in { 1, size } })


\* ------------------------------------------------------------ actions

Init ==
    /\ pc = "idle"
    /\ littleEndian \in BOOLEAN
    /\ intT = "int32" /\ ints = << >> /\ numInts = 0 /\ cur = 1
    /\ commonValue = 0 /\ prevVal = 0
    /\ encodeBuffer = << >> /\ codesOut = 0 /\ vintsOut = 0
    /\ wlog = {} /\ encodedSize = 0
    /\ compressed = [ valid |-> FALSE, payload |-> << >> ]
    /\ origin = "none"
    /\ decT = "int32" /\ decNumInts = 0 /\ tmpSpace = FALSE
    /\ workingSpace = << >> /\ decompSz = 0
    /\ decCommon = 0 /\ decPrevVal = 0 /\ codesIn = 0 /\ vintsIn = 0
    /\ intsLeft = 0 /\ result = << >> /\ rlog = {} /\ ret = 0

\* the encoder's cursors as the record the helpers work on
EncState ==
    [ cur |-> cur, prevVal |-> prevVal, codesOut |-> codesOut,
      vintsOut |-> vintsOut, buf |-> encodeBuffer, wlog |-> wlog ]

SetEncState(e) ==
    /\ cur' = e.cur
    /\ prevVal' = e.prevVal
    /\ codesOut' = e.codesOut
    /\ vintsOut' = e.vintsOut
    /\ encodeBuffer' = e.buf
    /\ wlog' = e.wlog

\* Usd_IntegerCompression::CompressToBuffer -> _CompressIntegers: allocate
\* encodeBuffer and enter _EncodeIntegers
CompressToBuffer ==
    /\ pc = "idle"
    /\ \E T \in IntTypes, X \in Inputs :
         /\ intT' = T
         /\ ints' = AsInts(T, X)
         /\ numInts' = Len(X)
         /\ encodeBuffer' = NewBuffer(_GetEncodedBufferSize(Len(X)))
    /\ pc' = "enc_start"
    /\ UNCHANGED << littleEndian, cur, commonValue, prevVal, codesOut,
                    vintsOut, wlog, encodedSize, compressed, origin,
                    decVars >>

\* if (numInts == 0) return 0;
EncodeEmpty ==
    /\ pc = "enc_start"
    /\ numInts = 0
    /\ encodedSize' = 0
    /\ pc' = "encoded"
    /\ UNCHANGED << littleEndian, intT, ints, numInts, cur, commonValue,
                    prevVal, encodeBuffer, codesOut, vintsOut, wlog,
                    compressed, origin, decVars >>

\* first pass, selection of commonValue, header write and cursor set-up
EncodeSelectCommon ==
    /\ pc = "enc_start"
    /\ numInts # 0
    /\ \E cv \in CommonCandidates(intT, ints) :
         /\ commonValue' = cv
         /\ SetEncState(EncodePlan(encodeBuffer, numInts, cv))
    /\ pc' = "enc_loop"
    /\ UNCHANGED << littleEndian, intT, ints, numInts, encodedSize,
                    compressed, origin, decVars >>

\* one iteration of while (numInts >= 4)
EncodeBlock ==
    /\ pc = "enc_loop"
    /\ numInts >= 4
    /\ SetEncState(_EncodeNHelper(4, intT, ints,
                                  SIntAsInt(intT, commonValue), EncState))
    /\ numInts' = numInts - 4
    /\ UNCHANGED << pc, littleEndian, intT, ints, commonValue, encodedSize,
                    compressed, origin, decVars >>

\* switch (numInts) and the return
EncodeTail ==
    /\ pc = "enc_loop"
    /\ numInts < 4
    /\ LET e == IF numInts \in 1 .. 3
                THEN _EncodeNHelper(numInts, intT, ints,
                                    SIntAsInt(intT, commonValue), EncState)
                ELSE EncState
       IN  /\ SetEncState(e)
           /\ encodedSize' = EncodeReturn(e)
    /\ pc' = "encoded"
    /\ UNCHANGED << littleEndian, intT, ints, numInts, commonValue,
                    compressed, origin, decVars >>

\* TfFastCompression::CompressToBuffer(encodeBuffer, output, encodedSize)
Compress ==
    /\ pc = "encoded"
    /\ compressed' = TfCompressToBuffer(SubSeq(encodeBuffer, 1, encodedSize))
    /\ origin' = "roundtrip"
    /\ pc' = "compressed"
    /\ UNCHANGED << littleEndian, encVars, decVars >>

\* _DecompressIntegers up to the return of the byte-stream decompressor;
\* own = no workingSpace was passed, g = the prior contents of the space
DecompressCall(stream, n, T, own, g) ==
    LET r == TfDecompressFromBuffer(stream, g,
                                    GetDecompressionWorkingSpaceSize(n))
    IN  /\ decT' = T
        /\ decNumInts' = n
        /\ tmpSpace' = own
        /\ workingSpace' = r.output
        /\ decompSz' = r.size
        /\ compressed' = stream
        /\ pc' = "decompressed"
        /\ UNCHANGED << littleEndian, encVars, decCommon, decPrevVal,
                        codesIn, vintsIn, intsLeft, result, rlog, ret >>

\* DecompressFromBuffer of what CompressToBuffer produced, same numInts
DecompressRoundTrip ==
    /\ pc = "compressed"
    /\ \E T \in IntTypes, own \in BOOLEAN,
          g \in Garbage(GetDecompressionWorkingSpaceSize(Len(ints))) :
         DecompressCall(compressed, Len(ints), T, own, g)
    /\ UNCHANGED origin

\* DecompressFromBuffer of a stream that did not come from the encoder
DecompressForeign ==
    /\ pc = "idle"
    /\ \E n \in 0 .. MaxDecN :
         \E stream \in ForeignStreams(n), T \in IntTypes, own \in BOOLEAN,
            g \in ForeignGarbage(GetDecompressionWorkingSpaceSize(n)) :
              DecompressCall(stream, n, T, own, g)
    /\ origin' = "foreign"

\* variant: the result of the decompressor not tested, the decoder entered
DecompressFailedIgnored ==
    /\ pc = "decompressed"
    /\ decompSz = 0
    /\ LET p == DecodePlan(workingSpace, decNumInts)
       IN  /\ decCommon' = p.commonValue
           /\ codesIn' = p.codesIn
           /\ vintsIn' = p.vintsIn
           /\ decPrevVal' = p.prevVal
           /\ result' = p.out
           /\ rlog' = p.rlog
    /\ intsLeft' = decNumInts
    /\ pc' = "dec_loop"
    /\ UNCHANGED << littleEndian, encVars, compressed, origin, decT,
                    decNumInts, tmpSpace, workingSpace, decompSz, ret >>

\* if (decompSz == 0) return 0;
DecompressFailed ==
    /\ pc = "decompressed"
    /\ decompSz = 0
    /\ ret' = 0
    /\ pc' = "done"
    /\ UNCHANGED << littleEndian, encVars, compressed, origin, decT,
                    decNumInts, tmpSpace, workingSpace, decompSz, decCommon,
                    decPrevVal, codesIn, vintsIn, intsLeft, result, rlog >>

DecState ==
    [ codesIn |-> codesIn, vintsIn |-> vintsIn, prevVal |-> decPrevVal,
      out |-> result, rlog |-> rlog ]

SetDecState(d) ==
    /\ codesIn' = d.codesIn
    /\ vintsIn' = d.vintsIn
    /\ decPrevVal' = d.prevVal
    /\ result' = d.out
    /\ rlog' = d.rlog

\* entry of _DecodeIntegers(workingSpace, numInts, ints)
DecodeBegin ==
    /\ pc = "decompressed"
    /\ decompSz # 0
    /\ LET p == DecodePlan(workingSpace, decNumInts)
       IN  /\ decCommon' = p.commonValue
           /\ SetDecState(p)
    /\ intsLeft' = decNumInts
    /\ pc' = "dec_loop"
    /\ UNCHANGED << littleEndian, encVars, compressed, origin, decT,
                    decNumInts, tmpSpace, workingSpace, decompSz, ret >>

\* one iteration of while (intsLeft >= 4)
DecodeBlock ==
    /\ pc = "dec_loop"
    /\ intsLeft >= 4
    /\ SetDecState(_DecodeNHelper(4, decT, workingSpace,
                                  SIntAsInt(decT, decCommon), DecState))
    /\ intsLeft' = intsLeft - 4
    /\ UNCHANGED << pc, littleEndian, encVars, compressed, origin, decT,
                    decNumInts, tmpSpace, workingSpace, decompSz, decCommon,
                    ret >>

\* switch (intsLeft) and return numInts
DecodeTail ==
    /\ pc = "dec_loop"
    /\ intsLeft < 4
    /\ SetDecState(IF intsLeft \in 1 .. 3
                   THEN _DecodeNHelper(intsLeft, decT, workingSpace,
                                       SIntAsInt(decT, decCommon), DecState)
                   ELSE DecState)
    /\ ret' = decNumInts
    /\ pc' = "done"
    /\ UNCHANGED << littleEndian, encVars, compressed, origin, decT,
                    decNumInts, tmpSpace, workingSpace, decompSz, decCommon,
                    intsLeft >>

Next ==
    \/ CompressToBuffer
    \/ EncodeEmpty
    \/ EncodeSelectCommon
    \/ EncodeBlock
    \/ EncodeTail
    \/ Compress
    \/ DecompressRoundTrip
    \/ DecompressForeign
    \/ DecompressFailed
    \/ DecodeBegin
    \/ DecodeBlock
    \/ DecodeTail

Spec == Init /\ [][Next]_vars

\* =============================================================== claims

\* ---- vocabulary of the claims, stated without the coder's operators

CeilDiv4(n) == (n + 3) \div 4

OtherT(T) == IF T = "int32" THEN "uint32" ELSE "int32"

\* the 32-bit patterns of an array of Int
BitPatterns(T, seq) ==
    [ i \in 1 .. Len(seq) |-> IF T = "int32" THEN I32ToU32(seq[i]) ELSE seq[i] ]

\* _EncodeIntegers has returned
EncodeDone == pc = "encoded"

\* the decoder has been entered
DecoderRan == pc \in { "dec_loop", "done" } /\ decompSz # 0

\* delta of element i: the int32 congruent modulo 2^32 to the difference of
\* the patterns of elements i and i-1 (element 0 is the pattern 0)
RefDeltas(pats) ==
    [ i \in 1 .. Len(pats) |->
        U32ToI32(U32Sub(pats[i], IF i = 1 THEN << 0, 0 >> ELSE pats[i - 1])) ]

RefMode(d, c) ==
    IF d = c THEN Common
    ELSE IF -128 <= d /\ d <= 127 THEN One
    ELSE IF -32768 <= d /\ d <= 32767 THEN Two
    ELSE Four

RefWidth(d) ==
    IF -128 <= d /\ d <= 127 THEN 1
    ELSE IF -32768 <= d /\ d <= 32767 THEN 2
    ELSE 4

\* the 2-bit code of element i (1-based) found in a buffer
ModeAt(buf, i) ==
    (ByteAt(buf, 4 + ((i - 1) \div 4)) \div (4 ^ ((i - 1) % 4))) % 4

ModesIn(buf, n) == [ i \in 1 .. n |-> ModeAt(buf, i) ]

\* the payload the claims expect: the non-Common deltas in element order
RECURSIVE RefPayload(_, _, _)
RefPayload(ds, c, i) ==
    IF i > Len(ds) THEN << >>
    ELSE (IF ds[i] = c THEN << >> ELSE HostBytes(ds[i], RefWidth(ds[i])))
         \o RefPayload(ds, c, i + 1)

Occurrences(ds, d) == Cardinality({ i \in 1 .. Len(ds) : ds[i] = d })

\* some difference of consecutive elements is outside the int32_t range
Wraps(pats) ==
    \E i \in 2 .. Len(pats) :
        LET a == U32ToI32(pats[i])
            b == U32ToI32(pats[i - 1])
            d == RefDeltas(pats)[i]
        IN  (a >= 0 /\ b < 0 /\ d < 0) \/ (a < 0 /\ b >= 0 /\ d > 0)

OffsetsOf(who) == { w.off : w \in { x \in wlog : x.cursor = who } }

\* ------------------------------------------------------------------ C1
\* C1: decoding, with the same N, the bytes the encoder wrote for X yields
\* exactly X (N = 0 included, wrapping differences included), whichever of
\* the equally frequent deltas the encoder took as the common value.
RoundTrip ==
    (pc = "done" /\ origin = "roundtrip")
        => /\ ret = Len(ints)
           /\ Len(result) = Len(ints)
           /\ decT = intT => result = ints

RoundTripWitness ==
    /\ pc = "done"
    /\ origin = "roundtrip"
    /\ decT = intT
    /\ Len(ints) = 4
    /\ Wraps(BitPatterns(intT, ints))
    /\ Cardinality(CommonCandidates(intT, ints)) >= 2
    /\ result = ints

\* ------------------------------------------------------------------ C2
\* C2: for N > 0 the size the encoder returns lies in
\* [4 + ceil(N/4), 4 + ceil(N/4) + 4N], hence within EncodedBufferSize(N),
\* and every byte it wrote is at an offset below that size; for N = 0 it
\* writes nothing and returns 0.
EncodedSizeBounds ==
    EncodeDone =>
        LET n == Len(ints)
        IN  IF n = 0
            THEN encodedSize = 0 /\ wlog = {}
            ELSE /\ encodedSize >= 4 + CeilDiv4(n)
                 /\ encodedSize <= 4 + CeilDiv4(n) + 4 * n
                 /\ 4 + CeilDiv4(n) + 4 * n = _GetEncodedBufferSize(n)
                 /\ encodedSize <= _GetEncodedBufferSize(n)
                 /\ \A w \in wlog : w.off >= 0 /\ w.off < encodedSize

EncodedSizeBoundsWitness ==
    /\ pc = "encoded"
    /\ Len(ints) = 4
    /\ encodedSize = 4 + 1 + 4 * 3
    /\ [ cursor |-> "vints", off |-> encodedSize - 1 ] \in wlog

\* ------------------------------------------------------------------ C3
\* C3: DecompressFromBuffer returns 0, without entering the decoder and
\* without writing an output integer, when the decompressor returns 0;
\* otherwise the decoder runs, N integers are written and N is returned;
\* the working space is GetDecompressionWorkingSpaceSize(N) bytes whether
\* it was passed in or allocated.
DecompressOutcome ==
    /\ pc = "decompressed" => (result = << >> /\ rlog = {})
    /\ pc \in { "decompressed", "dec_loop", "done" }
         => Len(workingSpace) = GetDecompressionWorkingSpaceSize(decNumInts)
    /\ pc = "dec_loop" => decompSz # 0
    /\ pc = "done"
         => IF decompSz = 0
            THEN ret = 0 /\ result = << >> /\ rlog = {}
            ELSE ret = decNumInts /\ Len(result) = decNumInts /\ rlog # {}

DecompressOutcomeWitness ==
    /\ pc = "done"
    /\ decompSz = 0
    /\ decNumInts = 5
    /\ tmpSpace
    /\ ret = 0
    /\ result = << >>

\* ------------------------------------------------------------------ C4
\* C4: encoding the same bit patterns through the other entry point
\* (int32 / uint32), with the same common value, gives the same bytes and
\* the same size; decoding the same working space through the other entry
\* point gives the same bit patterns.
SignedUnsignedEquivalence ==
    /\ EncodeDone =>
         LET o == _EncodeIntegers(OtherT(intT),
                     AsInts(OtherT(intT), BitPatterns(intT, ints)),
                     NewBuffer(_GetEncodedBufferSize(Len(ints))),
                     commonValue)
         IN  o.buf = encodeBuffer /\ o.size = encodedSize
    /\ (pc = "done" /\ decompSz # 0) =>
         BitPatterns(OtherT(decT),
             _DecodeIntegers(OtherT(decT), workingSpace, decNumInts).out)
           = BitPatterns(decT, result)

SignedUnsignedEquivalenceWitness ==
    /\ pc = "done"
    /\ decompSz # 0
    /\ intT = "uint32"
    /\ decT = "int32"
    /\ commonValue < 0
    /\ \E i \in 1 .. Len(ints) : ints[i][1] >= 32768
    /\ \E i \in 1 .. Len(result) : result[i] < 0

\* ------------------------------------------------------------------ C5
\* C5 as stated: whichever of the tied deltas is the common value, the
\* encoder writes the same number of bytes.
TieBreakSameSize ==
    (EncodeDone /\ Len(ints) > 0) =>
        \A c \in CommonCandidates(intT, ints) :
            _EncodeIntegers(intT, ints,
                NewBuffer(_GetEncodedBufferSize(Len(ints))), c).size
              = encodedSize

\* C5 amended: for tied deltas c1 and c2, each occurring m times, the size
\* with common value c1 plus m * w(c1) equals the size with common value c2
\* plus m * w(c2), w(d) being the payload width 1, 2 or 4 of d; so the
\* sizes agree exactly when the tied deltas have the same payload width.
TieBreakSizeLaw ==
    (EncodeDone /\ Len(ints) > 0) =>
        \A c \in CommonCandidates(intT, ints) :
            LET m == Occurrences(RefDeltas(BitPatterns(intT, ints)), c)
                size == _EncodeIntegers(intT, ints,
                            NewBuffer(_GetEncodedBufferSize(Len(ints))),
                            c).size
            IN  /\ m = Occurrences(RefDeltas(BitPatterns(intT, ints)),
                                   commonValue)
                /\ size + m * RefWidth(c)
                     = encodedSize + m * RefWidth(commonValue)
                /\ RefWidth(c) = RefWidth(commonValue) <=> size = encodedSize

TieBreakSizeLawWitness ==
    /\ pc = "encoded"
    /\ \E c \in CommonCandidates(intT, ints) :
         /\ c # commonValue
         /\ RefWidth(c) = 4
         /\ RefWidth(commonValue) = 1
         /\ _EncodeIntegers(intT, ints,
                NewBuffer(_GetEncodedBufferSize(Len(ints))), c).size
              < encodedSize

\* ------------------------------------------------------------------ C6
IsInput(pats) == BitPatterns(intT, ints) = pats

Scenario4AsStated ==
    /\ (EncodeDone /\ intT = "uint32" /\ IsInput(Scenario4)) =>
         /\ Deltas(intT, ints)
              = << 0, 1073741824, 1073741824, 1073741824 >>
         /\ commonValue = 1073741824
         /\ ModesIn(encodeBuffer, 4) = << Common, Common, Common, Common >>
         /\ encodedSize = 5
    /\ (pc = "done" /\ origin = "roundtrip" /\ intT = "uint32"
        /\ IsInput(Scenario4)) => BitPatterns(decT, result) = Scenario4

\* C7 amended: the deltas and the common value are as stated, and decoding
\* with N = 4 gives back the bit patterns of X; the first delta 0 differs
\* from the common value, so the modes are [One, Common, Common, Common]
\* and the encoded size is 4 + 1 + 1 = 6 bytes.
Scenario4Amended ==
    /\ (EncodeDone /\ intT = "uint32" /\ IsInput(Scenario4)) =>
         /\ Deltas(intT, ints)
              = << 0, 1073741824, 1073741824, 1073741824 >>
         /\ commonValue = 1073741824
         /\ ModesIn(encodeBuffer, 4) = << One, Common, Common, Common >>
         /\ encodedSize = 6
    /\ (pc = "done" /\ origin = "roundtrip" /\ intT = "uint32"
        /\ IsInput(Scenario4)) => BitPatterns(decT, result) = Scenario4

Scenario4AmendedWitness ==
    /\ pc = "done"
    /\ origin = "roundtrip"
    /\ intT = "uint32"
    /\ decT = "uint32"
    /\ ints = Scenario4
    /\ encodedSize = 6
    /\ result = Scenario4

\* ------------------------------------------------------------------ C8
\* C8: element i gets mode Common iff its delta equals the common value,
\* else One iff the delta is in [-128, 127], else Two iff it is in
\* [-32768, 32767], else Four; the payload is the non-Common deltas, in
\* their widths, in element order; the common value is a delta of maximal
\* occurrence count.
TightestMode ==
    (EncodeDone /\ Len(ints) > 0) =>
        LET n == Len(ints)
            ds == RefDeltas(BitPatterns(intT, ints))
        IN  /\ \A i \in 1 .. n :
                 /\ ModeAt(encodeBuffer, i) = RefMode(ds[i], commonValue)
                 /\ ModeAt(encodeBuffer, i) = Common <=> ds[i] = commonValue
            /\ SubSeq(encodeBuffer, 4 + CeilDiv4(n) + 1, encodedSize)
                 = RefPayload(ds, commonValue, 1)
            /\ Occurrences(ds, commonValue) >= 1
            /\ \A i \in 1 .. n :
                 Occurrences(ds, ds[i]) <= Occurrences(ds, commonValue)

TightestModeWitness ==
    /\ pc = "encoded"
    /\ Len(ints) = 7
    /\ commonValue = 1
    /\ \E i \in 1 .. 7 : ModeAt(encodeBuffer, i) = One
    /\ \E i \in 1 .. 7 : ModeAt(encodeBuffer, i) = Four
    /\ Cardinality({ i \in 1 .. 7 : ModeAt(encodeBuffer, i) = Common }) = 3

\* ------------------------------------------------------------------ C9
\* C9: for N > 0 exactly ceil(N/4) code bytes are written, at offsets
\* 4 .. 4 + ceil(N/4) - 1; the code of element i is in bits 2*(i mod 4) and
\* 2*(i mod 4) + 1 of code byte floor(i/4); the bits of the last code byte
\* above the last element's code are zero; the code cursor ends at the
\* first payload offset, and no byte is written through both cursors
\* (2 code bytes for N = 5 and N = 7).
CodeRegionLayout ==
    /\ pc = "enc_loop" =>
         /\ codesOut <= 4 + CeilDiv4(Len(ints))
         /\ vintsOut >= 4 + CeilDiv4(Len(ints))
         /\ OffsetsOf("codes") = 4 .. (codesOut - 1)
    /\ (EncodeDone /\ Len(ints) > 0) =>
         LET n == Len(ints)
             nc == CeilDiv4(n)
             used == n - 4 * (nc - 1)
         IN  /\ OffsetsOf("codes") = 4 .. (4 + nc - 1)
             /\ codesOut = 4 + nc
             /\ \A i \in 1 .. n :
                  ModeAt(encodeBuffer, i)
                    = getCode(intT, SIntAsInt(intT, commonValue),
                              Deltas(intT, ints)[i])
             /\ ByteAt(encodeBuffer, 4 + nc - 1) < 4 ^ used
             /\ OffsetsOf("vints") = (4 + nc) .. (encodedSize - 1)
             /\ OffsetsOf("codes") \cap OffsetsOf("vints") = {}
             /\ n \in { 5, 7 } => Cardinality(OffsetsOf("codes")) = 2

CodeRegionLayoutWitness ==
    /\ pc = "encoded"
    /\ Len(ints) = 7
    /\ codesOut = 6
    /\ Cardinality(OffsetsOf("codes")) = 2
    /\ ByteAt(encodeBuffer, 5) >= 16
    /\ OffsetsOf("vints") # {}

\* ----------------------------------------------------------------- C10
\* the result of decoding the tail with the unused high bits of its code
\* byte replaced by h
TailWithHighBits(h) ==
    _DecodeNHelper(intsLeft, decT,
        Store(workingSpace, codesIn,
              << (ByteAt(workingSpace, codesIn) % (4 ^ intsLeft))
                 + h * (4 ^ intsLeft) >>),
        SIntAsInt(decT, decCommon), DecState)

\* C10: whatever the working space holds, a decoder that runs reads
\* exactly ceil(N/4) code bytes and at most 4N payload bytes, all at
\* offsets below EncodedBufferSize(N), writes exactly N outputs, and the
\* bits of the final code byte above the N-th code change neither the
\* output nor the bytes read.
DecoderLengthBounded ==
    /\ DecoderRan =>
         /\ \A o \in rlog :
              o >= 0 /\ o < _GetEncodedBufferSize(decNumInts)
                     /\ o < Len(workingSpace)
         /\ Len(result) <= decNumInts
    /\ (pc = "done" /\ decompSz # 0) =>
         LET nc == CeilDiv4(decNumInts)
         IN  /\ codesIn = 4 + nc
             /\ (4 .. (4 + nc - 1)) \subseteq rlog
             /\ vintsIn >= 4 + nc
             /\ vintsIn - (4 + nc) <= 4 * decNumInts
             /\ Len(result) = decNumInts
             /\ ret = decNumInts
    /\ (pc = "dec_loop" /\ decompSz # 0 /\ intsLeft \in 1 .. 3) =>
         \A h \in 0 .. ((256 \div (4 ^ intsLeft)) - 1) :
             LET a == TailWithHighBits(h)
                 b == _DecodeNHelper(intsLeft, decT, workingSpace,
                                     SIntAsInt(decT, decCommon), DecState)
             IN  a.out = b.out /\ a.vintsIn = b.vintsIn /\ a.rlog = b.rlog

DecoderLengthBoundedWitness ==
    /\ pc = "done"
    /\ origin = "foreign"
    /\ decNumInts = 5
    /\ decompSz = 1
    /\ ByteAt(workingSpace, 5) = 255
    /\ vintsIn = _GetEncodedBufferSize(5)
    /\ Len(result) = 5

====
